---- MODULE Spec2Model ----
(***************************************************************************)
(* Model of the state facade of neilveil/devils (src/src/index.ts): the    *)
(* storage manager, the theme manager and the query string manager, with   *)
(* JSON.stringify / JSON.parse / btoa / atob computed on sequences of      *)
(* UTF-16 code units.                                                      *)
(***************************************************************************)
EXTENDS Integers, Sequences, FiniteSets, TLC

(***************************************************************************)
(* Text.  A JavaScript string is a sequence of code units (naturals).      *)
(***************************************************************************)
Code ==
  "{" :> 123 @@ "}" :> 125 @@ "[" :> 91 @@ "]" :> 93 @@ "," :> 44 @@
  ":" :> 58 @@ "\"" :> 34 @@ "\\" :> 92 @@ "/" :> 47 @@ "?" :> 63 @@
  "=" :> 61 @@ "+" :> 43 @@ "-" :> 45 @@ " " :> 32 @@ "!" :> 33 @@
  "0" :> 48 @@ "1" :> 49 @@ "5" :> 53 @@
  "A" :> 65 @@ "E" :> 69 @@ "H" :> 72 @@ "M" :> 77 @@ "P" :> 80 @@ "Q" :> 81 @@
  "S" :> 83 @@ "T" :> 84 @@ "Y" :> 89 @@ "_" :> 95 @@
  "a" :> 97 @@ "b" :> 98 @@ "d" :> 100 @@ "e" :> 101 @@ "f" :> 102 @@
  "g" :> 103 @@ "h" :> 104 @@ "i" :> 105 @@ "k" :> 107 @@ "l" :> 108 @@
  "n" :> 110 @@ "o" :> 111 @@ "p" :> 112 @@ "q" :> 113 @@ "r" :> 114 @@ "s" :> 115 @@
  "t" :> 116 @@ "u" :> 117 @@ "x" :> 120 @@ "y" :> 121 @@
  "EURO" :> 8364

\* the text whose characters are cs, e.g. T(<<"{", "}">>) is the text {}
T(cs) == [i \in 1..Len(cs) |-> Code[cs[i]]]

Drop(s, n) == SubSeq(s, n + 1, Len(s))
StartsWith(s, p) == Len(s) >= Len(p) /\ SubSeq(s, 1, Len(p)) = p

(***************************************************************************)
(* JavaScript values, one record shape for all kinds:                      *)
(*   t  kind: undefined null bool num str arr obj fn cyclic throw          *)
(*   b  boolean, n  integer, s  string text,                               *)
(*   ks own property names of an object in insertion order,                *)
(*   vs elements of an array / property values of an object.               *)
(* "fn" is a function value, "cyclic" an object that contains itself,      *)
(* "throw" the outcome of a call that raised.                              *)
(***************************************************************************)
V(t, b, n, s, ks, vs) == [t |-> t, b |-> b, n |-> n, s |-> s, ks |-> ks, vs |-> vs]
Undefined == V("undefined", FALSE, 0, <<>>, <<>>, <<>>)
Null      == V("null", FALSE, 0, <<>>, <<>>, <<>>)
Bool(b)   == V("bool", b, 0, <<>>, <<>>, <<>>)
Num(n)    == V("num", FALSE, n, <<>>, <<>>, <<>>)
Str(s)    == V("str", FALSE, 0, s, <<>>, <<>>)
Arr(vs)   == V("arr", FALSE, 0, <<>>, <<>>, vs)
Obj(ks, vs) == V("obj", FALSE, 0, <<>>, ks, vs)
Fn        == V("fn", FALSE, 0, <<>>, <<>>, <<>>)
Cyclic    == V("cyclic", FALSE, 0, <<>>, <<>>, <<>>)
Throw     == V("throw", FALSE, 0, <<>>, <<>>, <<>>)

\* ToBoolean: the values an `if`, `||`, `&&` or `?:` treats as false
Falsy(v) ==
  \/ v.t \in {"undefined", "null"}
  \/ v.t = "bool" /\ ~v.b
  \/ v.t = "num" /\ v.n = 0
  \/ v.t = "str" /\ v.s = <<>>

(***************************************************************************)
(* JSON.stringify                                                          *)
(***************************************************************************)
RECURSIVE Digits(_)
Digits(n) == IF n < 10 THEN <<48 + n>> ELSE Digits(n \div 10) \o <<48 + (n % 10)>>

NumText(n) == IF n < 0 THEN <<45>> \o Digits(-n) ELSE Digits(n)

RECURSIVE Quote(_)
Quote(s) ==
  IF s = <<>> THEN <<>>
  ELSE (IF Head(s) \in {34, 92} THEN <<92, Head(s)>> ELSE <<Head(s)>>) \o Quote(Tail(s))

RECURSIVE Serialize(_)
RECURSIVE SerializeElements(_, _)
RECURSIVE SerializeMembers(_, _, _)

\* the JSON text of v; only called on values whose serialization is a text
Serialize(v) ==
  CASE v.t = "null" -> T(<<"n", "u", "l", "l">>)
    [] v.t = "bool" -> IF v.b THEN T(<<"t", "r", "u", "e">>) ELSE T(<<"f", "a", "l", "s", "e">>)
    [] v.t = "num"  -> NumText(v.n)
    [] v.t = "str"  -> <<34>> \o Quote(v.s) \o <<34>>
    [] v.t = "arr"  -> <<91>> \o SerializeElements(v.vs, TRUE) \o <<93>>
    [] v.t = "obj"  -> <<123>> \o SerializeMembers(v.ks, v.vs, TRUE) \o <<125>>

\* array elements: undefined and functions are written as null
SerializeElements(vs, first) ==
  IF vs = <<>> THEN <<>>
  ELSE (IF first THEN <<>> ELSE <<44>>)
       \o (IF Head(vs).t \in {"undefined", "fn"} THEN Serialize(Null) ELSE Serialize(Head(vs)))
       \o SerializeElements(Tail(vs), FALSE)

\* object members: properties holding undefined or a function are left out
SerializeMembers(ks, vs, first) ==
  IF ks = <<>> THEN <<>>
  ELSE IF Head(vs).t \in {"undefined", "fn"} THEN SerializeMembers(Tail(ks), Tail(vs), first)
  ELSE (IF first THEN <<>> ELSE <<44>>)
       \o <<34>> \o Quote(Head(ks)) \o <<34, 58>> \o Serialize(Head(vs))
       \o SerializeMembers(Tail(ks), Tail(vs), FALSE)

RECURSIVE HasCycle(_)
HasCycle(v) ==
  \/ v.t = "cyclic"
  \/ v.t \in {"arr", "obj"} /\ \E i \in 1..Len(v.vs) : HasCycle(v.vs[i])

\* JSON.stringify(v): a string, undefined (for undefined and functions), or
\* a TypeError (for a structure that contains itself)
JSONstringify(v) ==
  IF HasCycle(v) THEN Throw
  ELSE IF v.t \in {"undefined", "fn"} THEN Undefined
  ELSE Str(Serialize(v))

(***************************************************************************)
(* JSON.parse, a recursive descent over the text.  Covered: the literals,  *)
(* integers, strings with the escapes \" \\ \/ \b \f \n \r \t, arrays,      *)
(* objects, white space.  Fractions, exponents and \u escapes do not occur *)
(* in the texts of this model.                                             *)
(***************************************************************************)
Parsed(v, rest) == [ok |-> TRUE, v |-> v, rest |-> rest]
Fail == [ok |-> FALSE, v |-> Undefined, rest |-> <<>>]

RECURSIVE SkipWs(_)
SkipWs(s) == IF s # <<>> /\ Head(s) \in {32, 9, 10, 13} THEN SkipWs(Tail(s)) ELSE s

IsDigit(c) == c \in 48..57

RECURSIVE ParseDigits(_, _)
ParseDigits(s, acc) ==
  IF s # <<>> /\ IsDigit(Head(s)) THEN ParseDigits(Tail(s), acc * 10 + (Head(s) - 48))
  ELSE Parsed(Num(acc), s)

\* s starts with a digit; a leading 0 is a number on its own
ParseInt(s) == IF Head(s) = 48 THEN Parsed(Num(0), Tail(s)) ELSE ParseDigits(s, 0)

ParseNumber(s) ==
  IF Head(s) = 45
  THEN IF Len(s) >= 2 /\ IsDigit(s[2])
       THEN LET r == ParseInt(Tail(s)) IN Parsed(Num(0 - r.v.n), r.rest)
       ELSE Fail
  ELSE ParseInt(s)

Unescape == 34 :> 34 @@ 92 :> 92 @@ 47 :> 47 @@ 98 :> 8 @@ 102 :> 12 @@
            110 :> 10 @@ 114 :> 13 @@ 116 :> 9

\* s is the text after the opening quote
RECURSIVE ParseString(_, _)
ParseString(s, acc) ==
  IF s = <<>> THEN Fail
  ELSE IF Head(s) = 34 THEN Parsed(Str(acc), Tail(s))
  ELSE IF Head(s) = 92
       THEN IF Len(s) >= 2 /\ s[2] \in DOMAIN Unescape
            THEN ParseString(Drop(s, 2), Append(acc, Unescape[s[2]]))
            ELSE Fail
  ELSE IF Head(s) < 32 THEN Fail
  ELSE ParseString(Tail(s), Append(acc, Head(s)))

\* a repeated property name keeps its first position and takes the last value
Put(ks, vs, k, v) ==
  IF \E i \in 1..Len(ks) : ks[i] = k
  THEN [ks |-> ks, vs |-> [i \in 1..Len(vs) |-> IF ks[i] = k THEN v ELSE vs[i]]]
  ELSE [ks |-> Append(ks, k), vs |-> Append(vs, v)]

RECURSIVE ParseValue(_)
RECURSIVE ParseElements(_, _)
RECURSIVE ParseMembers(_, _, _)

ParseValue(s0) ==
  LET s == SkipWs(s0) IN
  IF s = <<>> THEN Fail
  ELSE IF StartsWith(s, T(<<"n", "u", "l", "l">>)) THEN Parsed(Null, Drop(s, 4))
  ELSE IF StartsWith(s, T(<<"t", "r", "u", "e">>)) THEN Parsed(Bool(TRUE), Drop(s, 4))
  ELSE IF StartsWith(s, T(<<"f", "a", "l", "s", "e">>)) THEN Parsed(Bool(FALSE), Drop(s, 5))
  ELSE IF Head(s) = 34 THEN ParseString(Tail(s), <<>>)
  ELSE IF Head(s) = 45 \/ IsDigit(Head(s)) THEN ParseNumber(s)
  ELSE IF Head(s) = 91
       THEN LET r == SkipWs(Tail(s)) IN
            IF r # <<>> /\ Head(r) = 93 THEN Parsed(Arr(<<>>), Tail(r))
            ELSE ParseElements(r, <<>>)
  ELSE IF Head(s) = 123
       THEN LET r == SkipWs(Tail(s)) IN
            IF r # <<>> /\ Head(r) = 125 THEN Parsed(Obj(<<>>, <<>>), Tail(r))
            ELSE ParseMembers(r, <<>>, <<>>)
  ELSE Fail

ParseElements(s, acc) ==
  LET e == ParseValue(s) IN
  IF ~e.ok THEN Fail
  ELSE LET r == SkipWs(e.rest) IN
       IF r = <<>> THEN Fail
       ELSE IF Head(r) = 44 THEN ParseElements(Tail(r), Append(acc, e.v))
       ELSE IF Head(r) = 93 THEN Parsed(Arr(Append(acc, e.v)), Tail(r))
       ELSE Fail

ParseMembers(s0, ks, vs) ==
  LET s == SkipWs(s0) IN
  IF s = <<>> \/ Head(s) # 34 THEN Fail
  ELSE LET k == ParseString(Tail(s), <<>>) IN
       IF ~k.ok THEN Fail
       ELSE LET c == SkipWs(k.rest) IN
            IF c = <<>> \/ Head(c) # 58 THEN Fail
            ELSE LET e == ParseValue(Tail(c)) IN
                 IF ~e.ok THEN Fail
                 ELSE LET r == SkipWs(e.rest)
                          m == Put(ks, vs, k.v.s, e.v)
                      IN IF r = <<>> THEN Fail
                         ELSE IF Head(r) = 44 THEN ParseMembers(Tail(r), m.ks, m.vs)
                         ELSE IF Head(r) = 125 THEN Parsed(Obj(m.ks, m.vs), Tail(r))
                         ELSE Fail

\* ToString of the argument of JSON.parse, setItem, btoa: null and undefined
\* become the texts null and undefined
ToStringText(v) ==
  CASE v.t = "str" -> v.s
    [] v.t = "null" -> T(<<"n", "u", "l", "l">>)
    [] v.t = "undefined" -> T(<<"u", "n", "d", "e", "f", "i", "n", "e", "d">>)

\* JSON.parse(x): the parsed value, or Throw for a SyntaxError
JSONparse(x) ==
  LET r == ParseValue(ToStringText(x)) IN
  IF r.ok /\ SkipWs(r.rest) = <<>> THEN r.v ELSE Throw

(***************************************************************************)
(* window.btoa / window.atob (forgiving base64)                            *)
(***************************************************************************)
\* the character of the base64 alphabet A-Z a-z 0-9 + / with index i
B64Char(i) ==
  IF i < 26 THEN 65 + i
  ELSE IF i < 52 THEN 71 + i
  ELSE IF i < 62 THEN i - 4
  ELSE IF i = 62 THEN 43 ELSE 47

IsB64(c) == c \in 65..90 \/ c \in 97..122 \/ c \in 48..57 \/ c \in {43, 47}

B64Index(c) ==
  IF c \in 65..90 THEN c - 65
  ELSE IF c \in 97..122 THEN c - 71
  ELSE IF c \in 48..57 THEN c + 4
  ELSE IF c = 43 THEN 62 ELSE 63

RECURSIVE Encode64(_)
Encode64(bs) ==
  IF bs = <<>> THEN <<>>
  ELSE IF Len(bs) = 1
       THEN LET n == bs[1] * 16 IN
            <<B64Char(n \div 64), B64Char(n % 64), 61, 61>>
  ELSE IF Len(bs) = 2
       THEN LET n == (bs[1] * 256 + bs[2]) * 4 IN
            <<B64Char(n \div 4096), B64Char((n \div 64) % 64), B64Char(n % 64), 61>>
  ELSE LET n == bs[1] * 65536 + bs[2] * 256 + bs[3] IN
       <<B64Char(n \div 262144), B64Char((n \div 4096) % 64),
         B64Char((n \div 64) % 64), B64Char(n % 64)>> \o Encode64(Drop(bs, 3))

\* btoa(s): InvalidCharacterError when s has a code unit above 0xFF
btoa(s) ==
  IF \E i \in 1..Len(s) : s[i] > 255 THEN Throw ELSE Str(Encode64(s))

RECURSIVE Decode64(_)
Decode64(cs) ==
  IF cs = <<>> THEN <<>>
  ELSE IF Len(cs) = 2
       THEN LET n == B64Index(cs[1]) * 64 + B64Index(cs[2]) IN <<n \div 16>>
  ELSE IF Len(cs) = 3
       THEN LET n == B64Index(cs[1]) * 4096 + B64Index(cs[2]) * 64 + B64Index(cs[3]) IN
            <<n \div 1024, (n \div 4) % 256>>
  ELSE LET n == B64Index(cs[1]) * 262144 + B64Index(cs[2]) * 4096
                + B64Index(cs[3]) * 64 + B64Index(cs[4]) IN
       <<n \div 65536, (n \div 256) % 256, n % 256>> \o Decode64(Drop(cs, 4))

StripWs(s) == SelectSeq(s, LAMBDA c : c \notin {9, 10, 12, 13, 32})

StripPad(s) ==
  IF Len(s) % 4 = 0 /\ Len(s) > 0
  THEN IF s[Len(s)] = 61 /\ s[Len(s) - 1] = 61 THEN SubSeq(s, 1, Len(s) - 2)
       ELSE IF s[Len(s)] = 61 THEN SubSeq(s, 1, Len(s) - 1)
       ELSE s
  ELSE s

\* atob(s): InvalidCharacterError when s is not base64
atob(s) ==
  LET d == StripPad(StripWs(s)) IN
  IF Len(d) % 4 = 1 \/ \E i \in 1..Len(d) : ~IsB64(d[i]) THEN Throw
  ELSE Str(Decode64(d))

(***************************************************************************)
(* window.localStorage: a function from the keys present to their texts    *)
(***************************************************************************)
getItem(ls, key) == IF key \in DOMAIN ls THEN Str(ls[key]) ELSE Null
setItem(ls, key, text) == [k \in DOMAIN ls \cup {key} |-> IF k = key THEN text ELSE ls[k]]
removeItem(ls, key) == [k \in DOMAIN ls \ {key} |-> ls[k]]
NoItems == [k \in {} |-> <<>>]

(***************************************************************************)
(* State                                                                   *)
(***************************************************************************)
VARIABLES
  localStorage,  \* window.localStorage
  attribute,     \* the data-theme attribute of document.body, Null when unset
  matchMedia,    \* "none": no window.matchMedia; else whether
                 \* (prefers-color-scheme: dark) "matches" or is a "nomatch"
  search,        \* window.location.search
  call,          \* the last call: operation, key, argument, local currentTheme
  ret,           \* what the last call returned, Throw when it raised
  prev,          \* the call before the last one and what it returned
  scrollPositions,  \* the registry of scrollBack: page path -> offset
  pathname,      \* window.location.pathname
  scrollY,       \* window.scrollY
  timers,        \* per path of the init() call, its setTimeout callbacks pending
  saves,         \* per path, the number of scrollBack.save() calls made there
  restores,      \* per path, the number of window.scrollTo restores made there
  urls,          \* the registry of audioPlayer: url -> audio element
  constructed,   \* number of audio elements created for the registry
  passed,        \* the truthy urls audioPlayer has been called with
  listener,      \* whether setupSound is attached to the click event
  unlockCreated, \* number of audio elements setupSound has created
  unlockPlays    \* number of play() calls setupSound has made

storeVars == <<localStorage, attribute, matchMedia, search>>
scrollVars == <<scrollPositions, pathname, scrollY, timers, saves, restores>>
audioVars == <<urls, constructed, passed, listener, unlockCreated, unlockPlays>>
vars == <<storeVars, call, ret, prev, scrollVars, audioVars>>

Call(op, key, arg, cur) == [op |-> op, key |-> key, arg |-> arg, cur |-> cur]
NoCall == Call("load", Undefined, Undefined, Undefined)

\* the call (op, key, arg, cur) ends with result r
Return(op, key, arg, cur, r) ==
  /\ call' = Call(op, key, arg, cur)
  /\ ret' = r
  /\ prev' = [call |-> call, ret |-> ret]

\* the page paths of the application; a pathname begins with /
PathP == T(<<"/", "p">>)
PathQ == T(<<"/", "q">>)
Paths == {PathP, PathQ}

\* the number of timer callbacks of scrollBack.init not yet run
Pending == timers[PathP] + timers[PathQ]

\* a page load that already creates the silent unlock element
Loaded_eager(mm) ==
  /\ localStorage = NoItems
  /\ attribute = Null
  /\ matchMedia = mm
  /\ search = <<>>
  /\ call = NoCall
  /\ ret = Undefined
  /\ prev = [call |-> NoCall, ret |-> Undefined]
  /\ scrollPositions = NoItems
  /\ pathname = PathP
  /\ scrollY = 0
  /\ timers = [p \in Paths |-> 0]
  /\ saves = [p \in Paths |-> 0]
  /\ restores = [p \in Paths |-> 0]
  /\ urls = NoItems
  /\ constructed = 0
  /\ passed = {}
  /\ listener = TRUE
  /\ unlockCreated = 1
  /\ unlockPlays = 0

\* the page has loaded in a browser whose matchMedia is mm, on an origin
\* with an empty store
Loaded(mm) ==
  /\ localStorage = NoItems
  /\ attribute = Null
  /\ matchMedia = mm
  /\ search = <<>>
  /\ call = NoCall
  /\ ret = Undefined
  /\ prev = [call |-> NoCall, ret |-> Undefined]
  /\ scrollPositions = NoItems
  /\ pathname = PathP
  /\ scrollY = 0
  /\ timers = [p \in Paths |-> 0]
  /\ saves = [p \in Paths |-> 0]
  /\ restores = [p \in Paths |-> 0]
  /\ urls = NoItems
  /\ constructed = 0
  /\ passed = {}
  /\ listener = TRUE
  /\ unlockCreated = 0
  /\ unlockPlays = 0

Init == Loaded("nomatch")

InitTheme == \E mm \in {"none", "nomatch", "matches"} : Loaded(mm)

(***************************************************************************)
(* storageManager                                                          *)
(***************************************************************************)
\* storageManager.get with `if (!value) return defaultValue`
storageManager_get_falsy(ls, key, defaultValue) ==
  LET value == JSONparse(getItem(ls, key)) IN
  IF value = Throw THEN defaultValue
  ELSE IF Falsy(value) THEN defaultValue
  ELSE value

storageManager_get(ls, key, defaultValue) ==
  LET value == JSONparse(getItem(ls, key)) IN
  IF value = Throw THEN defaultValue
  ELSE IF value \in {Null, Undefined} THEN defaultValue
  ELSE value

StorageGet(key, defaultValue) ==
  /\ Return("storageManager.get", Str(key), defaultValue, Undefined,
            storageManager_get(localStorage, key, defaultValue))
  /\ UNCHANGED <<localStorage, attribute, matchMedia, search, scrollVars, audioVars>>

StorageSet(key, value) ==
  LET text == JSONstringify(value) IN
  /\ localStorage' = IF text = Throw THEN localStorage
                     ELSE setItem(localStorage, key, ToStringText(text))
  /\ Return("storageManager.set", Str(key), value, Undefined,
            IF text = Throw THEN Throw ELSE Undefined)
  /\ UNCHANGED <<attribute, matchMedia, search, scrollVars, audioVars>>

\* storageManager.clear that empties the store whatever the key
StorageClear_all(key) ==
  /\ localStorage' = NoItems
  /\ Return("storageManager.clear", key, Undefined, Undefined, Undefined)
  /\ UNCHANGED <<attribute, matchMedia, search, scrollVars, audioVars>>

\* key is a string, or Undefined when the argument is omitted
StorageClear(key) ==
  /\ localStorage' = IF ~Falsy(key) THEN removeItem(localStorage, key.s) ELSE NoItems
  /\ Return("storageManager.clear", key, Undefined, Undefined, Undefined)
  /\ UNCHANGED <<attribute, matchMedia, search, scrollVars, audioVars>>

\* another writer of the origin's store (the host application) calls
\* localStorage.setItem(key, text) directly
HostSetItem(key, text) ==
  /\ localStorage' = setItem(localStorage, key, text)
  /\ Return("localStorage.setItem", Str(key), Str(text), Undefined, Undefined)
  /\ UNCHANGED <<attribute, matchMedia, search, scrollVars, audioVars>>

(***************************************************************************)
(* themeManager                                                            *)
(***************************************************************************)
LIGHT == T(<<"l", "i", "g", "h", "t">>)
DARK == T(<<"d", "a", "r", "k">>)
THEME_KEY == T(<<"A", "P", "P", "_", "T", "H", "E", "M", "E">>)

\* themeManager.get without the matchMedia test
themeManager_get_light(ls, mm) ==
  LET item == getItem(ls, THEME_KEY)
      currentTheme == IF Falsy(item) THEN LIGHT ELSE item.s
  IN IF currentTheme \notin {LIGHT, DARK} THEN LIGHT ELSE currentTheme

themeManager_get(ls, mm) ==
  LET preferredTheme == IF mm # "none" /\ mm = "matches" THEN DARK ELSE LIGHT
      item == getItem(ls, THEME_KEY)
      currentTheme == IF Falsy(item) THEN preferredTheme ELSE item.s
  IN IF currentTheme \notin {LIGHT, DARK} THEN LIGHT ELSE currentTheme

\* themeManager.get that also writes the theme it resolved
ThemeGet_heal ==
  LET currentTheme == themeManager_get(localStorage, matchMedia) IN
  /\ attribute' = Str(currentTheme)
  /\ localStorage' = setItem(localStorage, THEME_KEY, currentTheme)
  /\ Return("themeManager.get", Undefined, Undefined, Undefined, Str(currentTheme))
  /\ UNCHANGED <<matchMedia, search, scrollVars, audioVars>>

ThemeGet ==
  /\ Return("themeManager.get", Undefined, Undefined, Undefined,
            Str(themeManager_get(localStorage, matchMedia)))
  /\ UNCHANGED <<localStorage, attribute, matchMedia, search, scrollVars, audioVars>>

\* themeManager.init that takes the OS preference and not get()
ThemeInit_pref ==
  LET currentTheme == IF matchMedia = "matches" THEN DARK ELSE LIGHT IN
  /\ attribute' = Str(currentTheme)
  /\ localStorage' = setItem(localStorage, THEME_KEY, currentTheme)
  /\ Return("themeManager.init", Undefined, Undefined, Str(currentTheme), Undefined)
  /\ UNCHANGED <<matchMedia, search, scrollVars, audioVars>>

ThemeInit ==
  LET currentTheme == themeManager_get(localStorage, matchMedia) IN
  /\ attribute' = Str(currentTheme)
  /\ localStorage' = setItem(localStorage, THEME_KEY, currentTheme)
  /\ Return("themeManager.init", Undefined, Undefined, Str(currentTheme), Undefined)
  /\ UNCHANGED <<matchMedia, search, scrollVars, audioVars>>

\* themeManager.set without the setItem call
ThemeSet_attr(newTheme) ==
  /\ attribute' = Str(newTheme)
  /\ Return("themeManager.set", Undefined, Str(newTheme), Undefined, Undefined)
  /\ UNCHANGED <<localStorage, matchMedia, search, scrollVars, audioVars>>

\* newTheme is typed 'light' | 'dark' and not checked at run time
ThemeSet(newTheme) ==
  /\ attribute' = Str(newTheme)
  /\ localStorage' = setItem(localStorage, THEME_KEY, newTheme)
  /\ Return("themeManager.set", Undefined, Str(newTheme), Undefined, Undefined)
  /\ UNCHANGED <<matchMedia, search, scrollVars, audioVars>>

\* themeManager.toggle that leaves the attribute alone
ThemeToggle_store ==
  LET currentTheme == themeManager_get(localStorage, matchMedia)
      altTheme == IF currentTheme = LIGHT THEN DARK ELSE LIGHT
  IN /\ localStorage' = setItem(localStorage, THEME_KEY, altTheme)
     /\ Return("themeManager.toggle", Undefined, Undefined, Str(currentTheme), Undefined)
     /\ UNCHANGED <<attribute, matchMedia, search, scrollVars, audioVars>>

\* themeManager.toggle with the two themes of the conditional swapped
ThemeToggle_same ==
  LET currentTheme == themeManager_get(localStorage, matchMedia)
      altTheme == IF currentTheme = LIGHT THEN LIGHT ELSE DARK
  IN /\ localStorage' = setItem(localStorage, THEME_KEY, altTheme)
     /\ attribute' = Str(altTheme)
     /\ Return("themeManager.toggle", Undefined, Undefined, Str(currentTheme), Undefined)
     /\ UNCHANGED <<matchMedia, search, scrollVars, audioVars>>

ThemeToggle ==
  LET currentTheme == themeManager_get(localStorage, matchMedia)
      altTheme == IF currentTheme = LIGHT THEN DARK ELSE LIGHT
  IN /\ localStorage' = setItem(localStorage, THEME_KEY, altTheme)
     /\ attribute' = Str(altTheme)
     /\ Return("themeManager.toggle", Undefined, Undefined, Str(currentTheme), Undefined)
     /\ UNCHANGED <<matchMedia, search, scrollVars, audioVars>>

\* the user changes the colour scheme of the operating system
MediaChange(mm) ==
  /\ matchMedia # "none" /\ mm # matchMedia
  /\ matchMedia' = mm
  /\ Return("matchMedia", Undefined, Undefined, Undefined, Undefined)
  /\ UNCHANGED <<localStorage, attribute, search, scrollVars, audioVars>>

(***************************************************************************)
(* qsm                                                                     *)
(***************************************************************************)
\* property names every object inherits from Object.prototype
ProtoKeys == {T(<<"t", "o", "S", "t", "r", "i", "n", "g">>)}
LENGTH == T(<<"l", "e", "n", "g", "t", "h">>)

OwnIndex(ks, key) == CHOOSE i \in 1..Len(ks) : ks[i] = key

\* `key in obj` for an object or an array: own and inherited properties
HasProperty(obj, key) ==
  \/ obj.t = "obj" /\ \E i \in 1..Len(obj.ks) : obj.ks[i] = key
  \/ obj.t = "arr" /\ \E i \in 1..Len(obj.vs) : NumText(i - 1) = key
  \/ obj.t = "arr" /\ key = LENGTH
  \/ key \in ProtoKeys

\* obj[key] for a key that HasProperty
GetProperty(obj, key) ==
  IF obj.t = "obj" /\ \E i \in 1..Len(obj.ks) : obj.ks[i] = key
    THEN obj.vs[OwnIndex(obj.ks, key)]
  ELSE IF obj.t = "arr" /\ \E i \in 1..Len(obj.vs) : NumText(i - 1) = key
    THEN obj.vs[CHOOSE i \in 1..Len(obj.vs) : NumText(i - 1) = key]
  ELSE IF obj.t = "arr" /\ key = LENGTH THEN Num(Len(obj.vs))
  ELSE Fn

\* location.search of a location whose href is the text href
RECURSIVE SearchOf(_)
SearchOf(href) ==
  IF href = <<>> THEN <<>>
  ELSE IF Head(href) = 63 THEN (IF Len(href) = 1 THEN <<>> ELSE href)
  ELSE SearchOf(Tail(href))

\* qsm.read that keeps the leading ? of location.search
qsm_read_noslice(q, key, defaultValue) ==
  LET decoded == atob(q) IN
  IF decoded = Throw THEN defaultValue
  ELSE LET obj == JSONparse(decoded) IN
       IF obj = Throw THEN defaultValue
       ELSE IF ~Falsy(key) /\ ~Falsy(obj) /\ obj.t \notin {"obj", "arr"}
            THEN defaultValue
       ELSE LET value == IF ~Falsy(key) /\ ~Falsy(obj) /\ HasProperty(obj, key.s)
                         THEN GetProperty(obj, key.s) ELSE obj
            IN IF value \in {Null, Undefined} THEN defaultValue ELSE value

\* key is a string, or Undefined when omitted; q is location.search
qsm_read(q, key, defaultValue) ==
  LET decoded == atob(Drop(q, 1)) IN
  IF decoded = Throw THEN defaultValue
  ELSE LET obj == JSONparse(decoded) IN
       IF obj = Throw THEN defaultValue
       ELSE IF ~Falsy(key) /\ ~Falsy(obj) /\ obj.t \notin {"obj", "arr"}
            THEN defaultValue   \* `key in obj` raises a TypeError, caught
       ELSE LET value == IF ~Falsy(key) /\ ~Falsy(obj) /\ HasProperty(obj, key.s)
                         THEN GetProperty(obj, key.s) ELSE obj
            IN IF value \in {Null, Undefined} THEN defaultValue ELSE value

\* content is Undefined when omitted
qsm_gen(content, prefix) ==
  LET text == JSONstringify(IF content = Undefined THEN Obj(<<>>, <<>>) ELSE content) IN
  IF text = Throw THEN Throw
  ELSE LET token == btoa(ToStringText(text)) IN
       IF token = Throw THEN Throw
       ELSE Str(prefix \o <<63>> \o token.s)

QsmRead(key, defaultValue) ==
  /\ Return("qsm.read", key, defaultValue, Undefined, qsm_read(search, key, defaultValue))
  /\ UNCHANGED <<localStorage, attribute, matchMedia, search, scrollVars, audioVars>>

QsmGen(content, prefix) ==
  /\ Return("qsm.gen", Str(prefix), content, Undefined, qsm_gen(content, prefix))
  /\ UNCHANGED <<localStorage, attribute, matchMedia, search, scrollVars, audioVars>>

\* the host application follows the link qsm.gen has just returned
Navigate ==
  /\ call.op = "qsm.gen" /\ ret # Throw
  /\ search' = SearchOf(ret.s)
  /\ Return("navigate", Undefined, ret, Undefined, Undefined)
  /\ UNCHANGED <<localStorage, attribute, matchMedia, scrollVars, audioVars>>

\* the page is opened at a location with the query component q
HostNavigate(q) ==
  /\ search' = q
  /\ Return("location", Undefined, Str(q), Undefined, Undefined)
  /\ UNCHANGED <<localStorage, attribute, matchMedia, scrollVars, audioVars>>

(***************************************************************************)
(* scrollBack                                                              *)
(***************************************************************************)
MaxSaves == 2
MaxTimers == 2
MaxOffset == 1

\* scrollBack.save that keeps the first checkpoint of a path
ScrollSave_first ==
  /\ saves[pathname] < MaxSaves
  /\ scrollPositions' = IF pathname \in DOMAIN scrollPositions THEN scrollPositions
                        ELSE setItem(scrollPositions, pathname, scrollY)
  /\ saves' = [saves EXCEPT ![pathname] = @ + 1]
  /\ Return("scrollBack.save", Str(pathname), Undefined, Undefined, Num(scrollY))
  /\ UNCHANGED <<storeVars, pathname, scrollY, timers, restores, audioVars>>

\* scrollPositions[window.location.pathname] = window.scrollY
ScrollSave ==
  /\ saves[pathname] < MaxSaves
  /\ scrollPositions' = setItem(scrollPositions, pathname, scrollY)
  /\ saves' = [saves EXCEPT ![pathname] = @ + 1]
  /\ Return("scrollBack.save", Str(pathname), Undefined, Undefined, Num(scrollY))
  /\ UNCHANGED <<storeVars, pathname, scrollY, timers, restores, audioVars>>

\* scrollBack.init that restores at once instead of in a timer
ScrollInit_sync ==
  /\ Pending < MaxTimers
  /\ IF pathname \in DOMAIN scrollPositions
     THEN /\ scrollY' = scrollPositions[pathname]
          /\ scrollPositions' = removeItem(scrollPositions, pathname)
          /\ restores' = [restores EXCEPT ![pathname] = @ + 1]
     ELSE UNCHANGED <<scrollY, scrollPositions, restores>>
  /\ Return("scrollBack.init", Str(pathname), Undefined, Undefined, Undefined)
  /\ UNCHANGED <<storeVars, pathname, timers, saves, audioVars>>

\* scrollBack.init only schedules the callback
ScrollInit ==
  /\ Pending < MaxTimers
  /\ timers' = [timers EXCEPT ![pathname] = @ + 1]
  /\ Return("scrollBack.init", Str(pathname), Undefined, Undefined, Undefined)
  /\ UNCHANGED <<storeVars, scrollPositions, pathname, scrollY, saves, restores, audioVars>>

\* the timer callback of scrollBack.init with the path read by init()
\* and captured, not read when the callback runs
ScrollTimeout_captured(p) ==
  /\ timers[p] > 0
  /\ timers' = [timers EXCEPT ![p] = @ - 1]
  /\ IF p \in DOMAIN scrollPositions
     THEN /\ scrollY' = scrollPositions[p]
          /\ scrollPositions' = removeItem(scrollPositions, p)
          /\ restores' = [restores EXCEPT ![p] = @ + 1]
          /\ Return("setTimeout", Str(p), Num(scrollPositions[p]), Str(p), Undefined)
     ELSE /\ UNCHANGED <<scrollY, scrollPositions, restores>>
          /\ Return("setTimeout", Str(p), Undefined, Str(p), Undefined)
  /\ UNCHANGED <<storeVars, pathname, saves, audioVars>>

\* the timer callback of scrollBack.init that scrolls and keeps the entry
ScrollTimeout_keep(p) ==
  /\ timers[p] > 0
  /\ timers' = [timers EXCEPT ![p] = @ - 1]
  /\ IF pathname \in DOMAIN scrollPositions
     THEN /\ scrollY' = scrollPositions[pathname]
          /\ restores' = [restores EXCEPT ![pathname] = @ + 1]
          /\ Return("setTimeout", Str(pathname), Num(scrollPositions[pathname]),
                    Str(p), Undefined)
     ELSE /\ UNCHANGED <<scrollY, restores>>
          /\ Return("setTimeout", Str(pathname), Undefined, Str(p), Undefined)
  /\ UNCHANGED <<storeVars, scrollPositions, pathname, saves, audioVars>>

\* the timer callback of an init() made at path p runs; the path is read
\* now (cur records p, key the path read).  No
\* inherited property name begins with /, so `page in scrollPositions` is
\* membership in the registry.  arg records the offset passed to scrollTo.
ScrollTimeout(p) ==
  /\ timers[p] > 0
  /\ timers' = [timers EXCEPT ![p] = @ - 1]
  /\ IF pathname \in DOMAIN scrollPositions
     THEN /\ scrollY' = scrollPositions[pathname]
          /\ scrollPositions' = removeItem(scrollPositions, pathname)
          /\ restores' = [restores EXCEPT ![pathname] = @ + 1]
          /\ Return("setTimeout", Str(pathname), Num(scrollPositions[pathname]),
                    Str(p), Undefined)
     ELSE /\ UNCHANGED <<scrollY, scrollPositions, restores>>
          /\ Return("setTimeout", Str(pathname), Undefined, Str(p), Undefined)
  /\ UNCHANGED <<storeVars, pathname, saves, audioVars>>

\* the user scrolls the page
UserScroll(y) ==
  /\ y # scrollY
  /\ scrollY' = y
  /\ Return("scroll", Undefined, Num(y), Undefined, Undefined)
  /\ UNCHANGED <<storeVars, scrollPositions, pathname, timers, saves, restores, audioVars>>

\* the router of the host application moves to another page
PathChange(p) ==
  /\ p # pathname
  /\ pathname' = p
  /\ Return("pathname", Str(p), Undefined, Undefined, Undefined)
  /\ UNCHANGED <<storeVars, scrollPositions, scrollY, timers, saves, restores, audioVars>>

NextScroll ==
  \/ ScrollSave
  \/ ScrollInit
  \/ \E p \in Paths : ScrollTimeout(p)
  \/ \E y \in 0..MaxOffset : UserScroll(y)
  \/ \E p \in Paths : PathChange(p)

SpecScroll == Init /\ [][NextScroll]_vars

\* init() calls whose callback is pending, in the behaviours checked for
\* progress
MaxFairTimers == 1

NextScrollFair ==
  \/ ScrollSave
  \/ Pending < MaxFairTimers /\ ScrollInit
  \/ \E p \in Paths : ScrollTimeout(p)
  \/ \E y \in 0..MaxOffset : UserScroll(y)
  \/ \E p \in Paths : PathChange(p)

\* a pending timer callback eventually runs
SpecScrollFair ==
  Init /\ [][NextScrollFair]_vars /\ WF_vars(\E p \in Paths : ScrollTimeout(p))

(***************************************************************************)
(* audioPlayer                                                             *)
(***************************************************************************)
MaxTime == 1

LOAD == Str(T(<<"l", "o", "a", "d">>))
PLAY == Str(T(<<"p", "l", "a", "y">>))
PAUSE == Str(T(<<"p", "a", "u", "s", "e">>))
STOP == Str(T(<<"s", "t", "o", "p">>))

\* document.createElement('audio'): the id-th element made for the registry
Audio(id) == [id |-> id, paused |-> TRUE, currentTime |-> 0]

\* `url in urls` on the plain object urls: own and inherited properties
InUrls(reg, url) == url \in DOMAIN reg \/ url \in ProtoKeys

\* the registry after `if (!(url in urls)) urls[url] = audioEl`
Cached(reg, url, n) == IF InUrls(reg, url) THEN reg ELSE setItem(reg, url, Audio(n + 1))

\* audioPlayer(url, status); status is Undefined when omitted.  started
\* tells whether the browser lets play() start playback.
AudioPlayer(url, status, started) ==
  IF url = <<>>
  THEN /\ Return("audioPlayer", Str(url), status, Undefined, Undefined)
       /\ UNCHANGED <<storeVars, scrollVars, audioVars>>
  ELSE LET reg == Cached(urls, url, constructed)
           st == IF Falsy(status) THEN PLAY ELSE status
       IN /\ passed' = passed \cup {url}
          /\ constructed' = IF reg = urls THEN constructed ELSE constructed + 1
          /\ IF st = LOAD \/ st \notin {PLAY, PAUSE, STOP}
             THEN urls' = reg /\ Return("audioPlayer", Str(url), status, Undefined, Undefined)
             ELSE IF url \notin DOMAIN reg
             THEN \* urls[url] is an inherited function: .play / .pause is not a function
                  urls' = reg /\ Return("audioPlayer", Str(url), status, Undefined, Throw)
             ELSE /\ urls' = [reg EXCEPT ![url] =
                       IF st = PLAY THEN [@ EXCEPT !.paused = @ /\ ~started]
                       ELSE IF st = PAUSE THEN [@ EXCEPT !.paused = TRUE]
                       ELSE [@ EXCEPT !.paused = TRUE, !.currentTime = 0]]
                  /\ Return("audioPlayer", Str(url), status, Undefined, Undefined)
          /\ UNCHANGED <<storeVars, scrollVars, listener, unlockCreated, unlockPlays>>

\* playback of the element of url advances, and ends at MaxTime
Playback(url) ==
  /\ url \in DOMAIN urls /\ ~urls[url].paused
  /\ urls' = [urls EXCEPT ![url] =
       IF @.currentTime < MaxTime THEN [@ EXCEPT !.currentTime = @ + 1]
       ELSE [@ EXCEPT !.paused = TRUE]]
  /\ Return("timeupdate", Str(url), Undefined, Undefined, Undefined)
  /\ UNCHANGED <<storeVars, scrollVars, constructed, passed, listener, unlockCreated, unlockPlays>>

\* a click whose listener setupSound stays attached
Click_keep ==
  /\ IF listener
     THEN /\ unlockCreated' = unlockCreated + 1
          /\ unlockPlays' = unlockPlays + 1
          /\ UNCHANGED listener
     ELSE UNCHANGED <<listener, unlockCreated, unlockPlays>>
  /\ Return("click", Undefined, Undefined, Undefined, Undefined)
  /\ UNCHANGED <<storeVars, scrollVars, urls, constructed, passed>>

\* a click on the page: setupSound runs if it is still attached, creates
\* the silent element, plays it and removes itself
Click ==
  /\ IF listener
     THEN /\ unlockCreated' = unlockCreated + 1
          /\ unlockPlays' = unlockPlays + 1
          /\ listener' = FALSE
     ELSE UNCHANGED <<listener, unlockCreated, unlockPlays>>
  /\ Return("click", Undefined, Undefined, Undefined, Undefined)
  /\ UNCHANGED <<storeVars, scrollVars, urls, constructed, passed>>

(***************************************************************************)
(* Inputs                                                                  *)
(***************************************************************************)
MaxNum == 1

EmptyKey == <<>>
KeyA == T(<<"a">>)
KeyB == T(<<"b">>)
BLUE == T(<<"b", "l", "u", "e">>)

\* values that are JSON values all the way down
JsonValues ==
  {Null, Bool(FALSE), Bool(TRUE), Str(<<>>), Str(T(<<"a", "\"", "\\">>)),
   Arr(<<>>), Arr(<<Null>>), Obj(<<>>, <<>>), Obj(<<KeyA>>, <<Num(1)>>)}
  \cup {Num(n) : n \in 0..MaxNum}

\* values JSON.stringify has no text for, or raises on
NonJsonValues == {Undefined, Fn, Cyclic}

StoreKeys == {EmptyKey, KeyA}
StoreDefaults == {Undefined, Num(7)}
HostTexts == {<<>>, LIGHT, T(<<"{">>)}

NextStore ==
  \/ \E k \in StoreKeys, d \in StoreDefaults : StorageGet(k, d)
  \/ \E k \in StoreKeys, v \in JsonValues \cup NonJsonValues : StorageSet(k, v)
  \/ \E k \in {Str(j) : j \in StoreKeys} \cup {Undefined} : StorageClear(k)
  \/ \E k \in StoreKeys, t \in HostTexts : HostSetItem(k, t)

SpecStore == Init /\ [][NextStore]_vars

ThemeArgs == {LIGHT, DARK, <<>>, BLUE}
ThemeHostTexts == {<<>>, BLUE, DARK}

NextTheme ==
  \/ ThemeGet
  \/ ThemeInit
  \/ \E x \in ThemeArgs : ThemeSet(x)
  \/ ThemeToggle
  \/ \E mm \in {"nomatch", "matches"} : MediaChange(mm)
  \/ \E t \in ThemeHostTexts : HostSetItem(THEME_KEY, t)
  \/ StorageSet(THEME_KEY, Str(DARK))
  \/ \E k \in {Str(THEME_KEY), Undefined} : StorageClear(k)

SpecTheme == InitTheme /\ [][NextTheme]_vars

\* contents for qsm.gen: objects, other JSON values, a string with a code
\* unit above 0xFF, and the omitted argument
QsmObjects ==
  {Obj(<<>>, <<>>), Obj(<<KeyA>>, <<Num(MaxNum)>>), Obj(<<KeyA>>, <<Null>>),
   Obj(<<KeyA, KeyB>>, <<Num(0), Str(T(<<"x">>))>>),
   Obj(<<KeyA>>, <<Str(<<233>>)>>)}
QsmContents ==
  QsmObjects \cup {Null, Num(0), Num(5), Arr(<<Num(5)>>),
                   Obj(<<KeyA>>, <<Str(T(<<"EURO">>))>>), Cyclic, Undefined}
QsmKeys == {Undefined, Str(EmptyKey), Str(KeyA), Str(KeyB), Str(T(<<"0">>)), Str(LENGTH)}
             \cup {Str(k) : k \in ProtoKeys}
QsmDefaults == {Undefined, Num(7)}
QsmPrefixes == {<<>>, T(<<"/", "p">>)}
\* query components that no qsm.gen produced: none, a lone ?, not base64,
\* base64 without padding, base64 of text that is not JSON
HostSearches ==
  {<<>>, T(<<"?">>), T(<<"?", "!">>), T(<<"?", "M", "Q">>),
   <<63>> \o btoa(T(<<"{">>)).s, <<63>> \o btoa(LIGHT).s}

NextQsm ==
  \/ \E k \in QsmKeys, d \in QsmDefaults : QsmRead(k, d)
  \/ \E c \in QsmContents, p \in QsmPrefixes : QsmGen(c, p)
  \/ Navigate
  \/ \E q \in HostSearches : HostNavigate(q)

SpecQsm == Init /\ [][NextQsm]_vars

AudioUrls == {<<>>, KeyA, KeyB} \cup ProtoKeys
AudioStatuses == {Undefined, LOAD, PLAY, PAUSE, STOP}

NextAudio ==
  \/ \E u \in AudioUrls, st \in AudioStatuses, started \in BOOLEAN : AudioPlayer(u, st, started)
  \/ \E u \in AudioUrls : Playback(u)
  \/ Click

SpecAudio == Init /\ [][NextAudio]_vars

\* the components in one page: the host application calls the operations
\* of all five in any order
AppStoreKeys == {THEME_KEY, KeyA}
\* save() calls and pending timers of scrollBack in the page
MaxAppCalls == 1

NextApp ==
  \/ ThemeInit
  \/ ThemeSet(DARK)
  \/ ThemeToggle
  \/ \E mm \in {"nomatch", "matches"} : MediaChange(mm)
  \/ StorageGet(THEME_KEY, Undefined)
  \/ \E k \in AppStoreKeys : StorageSet(k, Str(DARK))
  \/ \E k \in {Str(j) : j \in AppStoreKeys} \cup {Str(EmptyKey), Undefined} : StorageClear(k)
  \/ QsmRead(Str(KeyA), Undefined)
  \/ saves[pathname] < MaxAppCalls /\ ScrollSave
  \/ Pending < MaxAppCalls /\ ScrollInit
  \/ \E p \in Paths : ScrollTimeout(p)
  \/ AudioPlayer(KeyA, PLAY, TRUE)
  \/ Click

Spec == Init /\ [][NextApp]_vars

(***************************************************************************)
(* Properties of storageManager                                            *)
(***************************************************************************)
RECURSIVE IsJson(_)
IsJson(v) ==
  /\ v.t \in {"null", "bool", "num", "str", "arr", "obj"}
  /\ \A i \in 1..Len(v.vs) : IsJson(v.vs[i])

\* a get(k) that directly follows a set(k, v) that returned
SetThenGet ==
  /\ prev.call.op = "storageManager.set" /\ prev.ret # Throw
  /\ call.op = "storageManager.get" /\ call.key = prev.call.key

\* C1 as stated: for every key k and every JSON value v, set(k, v) followed
\* by get(k) returns a value equal to v.
C1_SetGetAnyJson ==
  SetThenGet /\ IsJson(prev.call.arg) => ret = prev.call.arg

\* C1 amended: for every key k and every JSON value v other than null,
\* set(k, v) followed by get(k) returns a value equal to v; after
\* set(k, null), get(k, d) returns the default d.
C1_SetGetNonNull ==
  SetThenGet /\ IsJson(prev.call.arg) =>
    ret = IF prev.call.arg = Null THEN call.arg ELSE prev.call.arg

\* set(k, 0) and then get(k, 7) returned the falsy 0
C1_Witness ==
  /\ SetThenGet
  /\ prev.call.arg = Num(0)
  /\ call.arg = Num(7)
  /\ ret = Num(0)

\* C2 as stated: clear(k) removes the entry k and leaves every other entry
\* unchanged, for every string k; clear() removes every entry.
C2_ClearFrame ==
  [][call'.op = "storageManager.clear" =>
       IF call'.key = Undefined THEN localStorage' = NoItems
       ELSE /\ call'.key.s \notin DOMAIN localStorage'
            /\ \A j \in DOMAIN localStorage \ {call'.key.s} :
                 j \in DOMAIN localStorage' /\ localStorage'[j] = localStorage[j]]_vars

\* C3: get(k, d) never raises; it returns d when k is absent, when the text
\* under k is not JSON and when that text parses to null; otherwise it
\* returns the parsed value, falsy or not.
C3_GetTotal ==
  call.op = "storageManager.get" =>
    LET k == call.key.s
        d == call.arg
    IN /\ ret # Throw
       /\ k \notin DOMAIN localStorage => ret = d
       /\ k \in DOMAIN localStorage =>
            LET parsed == JSONparse(Str(localStorage[k])) IN
            /\ localStorage[k] \in HostTexts => ret = d
            /\ parsed \in {Throw, Null} => ret = d
            /\ parsed \notin {Throw, Null} => ret = parsed /\ IsJson(ret)

\* a get with a default returned the stored false instead of the default
C3_Witness ==
  /\ call.op = "storageManager.get"
  /\ call.arg = Num(7)
  /\ ret = Bool(FALSE)

\* JSON.stringify(v) raises, or returns undefined and no text
NoJsonText(v) == JSONstringify(v) \in {Throw, Undefined}

\* C22 as stated: for a value v that JSON.stringify raises on or has no
\* text for, storageManager.set(k, v) raises and leaves the whole store as
\* it was, and qsm.gen(v) raises.
C22_FailurePropagates ==
  /\ [][call'.op = "storageManager.set" /\ NoJsonText(call'.arg) =>
          ret' = Throw /\ localStorage' = localStorage]_vars
  /\ [](call.op = "qsm.gen" /\ NoJsonText(call.arg) => ret = Throw)

(***************************************************************************)
(* Properties of qsm                                                       *)
(***************************************************************************)
\* the location's query component is the token of qsm.gen(content)
AtToken(content) ==
  /\ qsm_gen(content, <<>>) # Throw
  /\ search = SearchOf(qsm_gen(content, <<>>).s)

HasOwn(content, key) == \E i \in 1..Len(content.ks) : content.ks[i] = key

\* C4 as stated: at the token of gen(content), read(k, d) returns content[k]
\* when k is a property of content and d when it is not.
C4_ReadKey ==
  \A content \in QsmObjects :
    call.op = "qsm.read" /\ call.key.t = "str" /\ AtToken(content) =>
      ret = IF HasOwn(content, call.key.s)
            THEN content.vs[OwnIndex(content.ks, call.key.s)]
            ELSE call.arg

\* C5 as stated: at the token of gen(content), read() without a key returns
\* a value equal to content, for every JSON content.
C5_ReadAll ==
  \A content \in QsmContents :
    IsJson(content) /\ call.op = "qsm.read" /\ call.key = Undefined /\ AtToken(content) =>
      ret = content

\* C5 amended: at the token of gen(content), read(undefined, d) returns a
\* value equal to content for every JSON content other than null, and the
\* default d for the content null.
C5_ReadAllNonNull ==
  \A content \in QsmContents :
    IsJson(content) /\ call.op = "qsm.read" /\ call.key = Undefined /\ AtToken(content) =>
      ret = IF content = Null THEN call.arg ELSE content

\* gen, navigation to the generated link, then read() returned the object
\* with the string of code unit 0xE9
C5_Witness ==
  /\ prev.call.op = "navigate"
  /\ call.op = "qsm.read" /\ call.key = Undefined
  /\ ret = Obj(<<KeyA>>, <<Str(<<233>>)>>)

\* what the token of the location decodes to, Throw when it is malformed
DecodedQuery ==
  LET decoded == atob(Drop(search, 1)) IN
  IF decoded = Throw THEN Throw ELSE JSONparse(decoded)

\* C6 as stated: read(k, d) never raises, returns d or a decoded value (the
\* decoded structure, or one of its members), and returns d when the token
\* is absent or malformed.
C6_ReadTotal ==
  call.op = "qsm.read" =>
    /\ ret # Throw
    /\ DecodedQuery = Throw => ret = call.arg
    /\ \/ ret = call.arg
       \/ ret = DecodedQuery
       \/ \E i \in 1..Len(DecodedQuery.vs) : ret = DecodedQuery.vs[i]

(***************************************************************************)
(* Properties of themeManager                                              *)
(***************************************************************************)
Themes == {Str(LIGHT), Str(DARK)}
Stored == getItem(localStorage, THEME_KEY)

\* C7 as stated: with a string other than light and dark stored under
\* APP_THEME, get() returns light, whatever the OS preference.
C7_InvalidIsLight ==
  call.op = "themeManager.get" /\ Stored # Null /\ Stored \notin Themes =>
    ret = Str(LIGHT)

\* C8: with nothing stored under APP_THEME, get() returns dark when the OS
\* prefers dark and light otherwise; with light or dark stored it returns
\* the stored theme.
C8_GetResolves ==
  call.op = "themeManager.get" =>
    /\ Stored = Null => ret = Str(IF matchMedia = "matches" THEN DARK ELSE LIGHT)
    /\ Stored \in Themes => ret = Stored

\* get() returned dark from the OS preference alone
C8_Witness ==
  /\ call.op = "themeManager.get"
  /\ Stored = Null /\ matchMedia = "matches"
  /\ ret = Str(DARK)

\* the last call was init(), toggle() or set() with one of the two themes
ThemeWritten ==
  \/ call.op \in {"themeManager.init", "themeManager.toggle"}
  \/ call.op = "themeManager.set" /\ call.arg \in Themes

\* C9: after init(), set('light' | 'dark') or toggle(), from any state, the
\* data-theme attribute equals the value stored under APP_THEME and is one
\* of the two themes.
C9_Mirrored ==
  ThemeWritten => attribute = Stored /\ attribute \in Themes

\* toggle() ran on a store where another writer had left blue, with the
\* attribute unset
C9_Witness ==
  /\ prev.call.op = "localStorage.setItem" /\ prev.call.arg = Str(BLUE)
  /\ call.op = "themeManager.toggle"
  /\ attribute = Str(DARK)

\* C10: after one toggle() get() returns the other theme than before it;
\* after two consecutive toggle() calls it returns what it returned before
\* the first.
C10_Toggle ==
  LET now == Str(themeManager_get(localStorage, matchMedia)) IN
  /\ call.op = "themeManager.toggle" =>
       now \in Themes /\ call.cur \in Themes /\ now # call.cur
  /\ call.op = "themeManager.toggle" /\ prev.call.op = "themeManager.toggle" =>
       now = prev.call.cur

\* two toggles in a row from the theme dark, which the first one resolved
\* from the OS preference with nothing stored
C10_Witness ==
  /\ prev.call.op = "themeManager.toggle" /\ prev.call.cur = Str(DARK)
  /\ call.op = "themeManager.toggle" /\ call.cur = Str(LIGHT)
  /\ matchMedia = "matches"
  /\ Stored = Str(DARK)

\* the last call was get() and the one before it set(x) with x neither
\* light nor dark
GetAfterInvalidSet ==
  /\ call.op = "themeManager.get"
  /\ prev.call.op = "themeManager.set" /\ prev.call.arg \notin Themes

\* C16 as stated: the get() that follows set(x), x neither light nor dark,
\* returns light, and once it has returned the stored APP_THEME value and
\* the data-theme attribute are light or dark again.
C16_GetHeals ==
  GetAfterInvalidSet =>
    ret = Str(LIGHT) /\ Stored \in Themes /\ attribute \in Themes

\* C16, amended: the get() that follows set(x), x neither light nor dark,
\* returns light or dark (light when x is not empty) and repairs nothing:
\* after it the stored APP_THEME value and the attribute are still x.
C16_GetMasks ==
  GetAfterInvalidSet =>
    /\ ret \in Themes
    /\ prev.call.arg # Str(<<>>) => ret = Str(LIGHT)
    /\ Stored = prev.call.arg /\ attribute = prev.call.arg

\* set('blue'), then get() returned light with blue still stored and shown
C16_Witness ==
  /\ GetAfterInvalidSet
  /\ prev.call.arg = Str(BLUE)
  /\ ret = Str(LIGHT)
  /\ Stored = Str(BLUE) /\ attribute = Str(BLUE)

\* C17: a get() call changes neither the store (whatever is or is not
\* stored under APP_THEME) nor the data-theme attribute.
C17_GetWritesNothing ==
  [][call'.op = "themeManager.get" => UNCHANGED <<localStorage, attribute>>]_vars

\* get() returned dark from the OS preference; nothing is stored and the
\* attribute is unset
C17_Witness ==
  /\ call.op = "themeManager.get" /\ ret = Str(DARK)
  /\ localStorage = NoItems
  /\ attribute = Null

\* C18: an init() that follows an init(), directly or with a change of the
\* OS preference in between, changes neither the store nor the attribute.
C18_InitIdempotent ==
  [][/\ call'.op = "themeManager.init"
     /\ \/ call.op = "themeManager.init"
        \/ call.op = "matchMedia" /\ prev.call.op = "themeManager.init"
     => UNCHANGED <<localStorage, attribute>>]_vars

\* init() twice in a row, both resolving dark while the OS prefers dark
C18_Witness ==
  /\ prev.call.op = "themeManager.init" /\ call.op = "themeManager.init"
  /\ prev.call.cur = Str(DARK) /\ call.cur = Str(DARK)
  /\ matchMedia = "matches"
  /\ Stored = Str(DARK) /\ attribute = Str(DARK)

\* the theme get() would return now
Resolved == Str(themeManager_get(localStorage, matchMedia))

\* the operations of storageManager, qsm, scrollBack (its timer callback
\* included) and audioPlayer (its click listener included)
OtherOps ==
  {"storageManager.get", "storageManager.set", "storageManager.clear",
   "qsm.read", "qsm.gen", "scrollBack.save", "scrollBack.init", "setTimeout",
   "audioPlayer", "click"}

\* the call c is storageManager.set('APP_THEME', v), clear('APP_THEME'),
\* clear() or clear('')
WritesThemeKey(c) ==
  \/ c.op = "storageManager.set" /\ c.key = Str(THEME_KEY)
  \/ c.op = "storageManager.clear" /\ (Falsy(c.key) \/ c.key = Str(THEME_KEY))

\* C15 as stated: no operation of storageManager, qsm, scrollBack or
\* audioPlayer changes the theme get() returns, or makes the stored
\* APP_THEME value differ from the data-theme attribute when they agreed.
C15_OthersKeepTheme ==
  [][call'.op \in OtherOps =>
       /\ Resolved' = Resolved
       /\ Stored # Null /\ Stored = attribute => Stored' = attribute']_vars

\* C15, amended: the theme get() returns, the stored APP_THEME value and
\* the attribute change only in a themeManager set, toggle or init step, a
\* change of the OS preference, or a storageManager.set('APP_THEME', v),
\* clear('APP_THEME'), clear() or clear('') call; no other operation of
\* storageManager and none of qsm, scrollBack and audioPlayer changes them.
C15_OnlyThemeKeyWriters ==
  [][Resolved' # Resolved \/ Stored' # Stored \/ attribute' # attribute =>
       \/ call'.op \in {"themeManager.set", "themeManager.toggle",
                        "themeManager.init", "matchMedia"}
       \/ WritesThemeKey(call')]_vars

\* storageManager.clear('a') ran right after a toggle() and left dark
\* stored and shown
C15_Witness ==
  /\ prev.call.op = "themeManager.toggle"
  /\ call.op = "storageManager.clear" /\ call.key = Str(KeyA)
  /\ KeyA \notin DOMAIN localStorage
  /\ Stored = Str(DARK) /\ attribute = Str(DARK)
  /\ Resolved = Str(DARK)

(***************************************************************************)
(* Properties of scrollBack                                                *)
(***************************************************************************)
\* the last step was a timer callback that found no checkpoint for its path
IdleTimeout == call.op = "setTimeout" /\ call.arg = Undefined

\* C11: for each path the number of restores never exceeds the number of
\* save() calls made there (a checkpoint still in the registry counts as a
\* restore to come), and a timer callback that finds the checkpoint of its
\* path consumed changes neither the scroll offset nor the registry.
C11_AtMostOnce ==
  /\ [](\A p \in Paths :
          restores[p] + (IF p \in DOMAIN scrollPositions THEN 1 ELSE 0) <= saves[p])
  /\ [][call'.op = "setTimeout" /\ pathname \notin DOMAIN scrollPositions =>
          UNCHANGED <<scrollY, scrollPositions, restores>>]_vars

\* a second callback ran at a path whose checkpoint the first had restored
C11_Witness ==
  /\ prev.call.op = "setTimeout" /\ prev.call.arg = Num(1)
  /\ IdleTimeout
  /\ call.key = prev.call.key
  /\ restores[call.key.s] = 1 /\ saves[call.key.s] = 1
  /\ scrollY = 1

\* the last call was init() at path p, which has a checkpoint
InitAt(p) ==
  /\ call.op = "scrollBack.init" /\ call.key = Str(p)
  /\ pathname = p
  /\ p \in DOMAIN scrollPositions

\* the last step was a timer callback that scrolled to the checkpoint of p
\* and deleted it
RestoredAt(p) ==
  /\ call.op = "setTimeout" /\ call.key = Str(p)
  /\ call.arg # Undefined /\ scrollY = call.arg.n
  /\ p \notin DOMAIN scrollPositions

\* an init() step changes neither the scroll offset nor the registry; an
\* entry leaves the registry only in a timer callback, which scrolls to the
\* offset of the entry; a scheduled callback goes away only by running
InitDeferred ==
  /\ [][call'.op = "scrollBack.init" => UNCHANGED <<scrollY, scrollPositions>>]_vars
  /\ [][\A p \in DOMAIN scrollPositions :
          p \notin DOMAIN scrollPositions' =>
            /\ call'.op = "setTimeout" /\ p = pathname
            /\ scrollY' = scrollPositions[p]]_vars
  /\ [][\A p \in Paths : timers'[p] < timers[p] => call'.op = "setTimeout"]_vars

\* C20 as stated: init() has no synchronous effect, and when it is called
\* at p while p has a checkpoint with offset o, then, unless the location
\* leaves p, eventually a callback scrolls to o and deletes the entry of p.
C20_RestoresThatOffset ==
  /\ InitDeferred
  /\ \A p \in Paths, o \in 0..MaxOffset :
       (InitAt(p) /\ scrollPositions[p] = o) ~>
         (pathname # p \/ (RestoredAt(p) /\ call.arg = Num(o)))

\* C20, amended: init() has no synchronous effect, and when it is called
\* at p while p has a checkpoint, then, unless the location leaves p,
\* eventually a callback scrolls to the offset the registry holds for p at
\* that moment and deletes the entry of p.
C20_RestoresEntry ==
  /\ InitDeferred
  /\ (\E p \in Paths : InitAt(p)) ~> (call.op = "pathname" \/ RestoredAt(pathname))

\* the callback of an init() made at a path with the checkpoint 1 ran as
\* the next step and scrolled the page from 0 to 1
C20_Witness ==
  /\ prev.call.op = "scrollBack.init" /\ prev.call.key = call.key
  /\ call.op = "setTimeout" /\ call.arg = Num(1)
  /\ scrollY = 1
  /\ call.key.s \notin DOMAIN scrollPositions
  /\ Pending = 0

\* C21: the registry maps a path to one offset; a save() step at p makes
\* the entry of p the current offset, whatever it was, and changes no other
\* entry; an entry gets a new offset only in a save() step at its path; a
\* callback that finds the entry of its path scrolls to the offset of that
\* entry, which is the offset the save() just before it returned.
C21_LastWriteWins ==
  /\ [][call'.op = "scrollBack.save" =>
          /\ DOMAIN scrollPositions' = DOMAIN scrollPositions \cup {pathname}
          /\ scrollPositions'[pathname] = scrollY
          /\ \A q \in DOMAIN scrollPositions \ {pathname} :
               scrollPositions'[q] = scrollPositions[q]]_vars
  /\ [][\A q \in DOMAIN scrollPositions' :
          q \notin DOMAIN scrollPositions \/ scrollPositions'[q] # scrollPositions[q] =>
            call'.op = "scrollBack.save" /\ q = pathname]_vars
  /\ [][call'.op = "setTimeout" /\ pathname \in DOMAIN scrollPositions =>
          scrollY' = scrollPositions[pathname] /\ call'.arg = Num(scrollY')]_vars
  /\ [](/\ call.op = "setTimeout" /\ call.arg # Undefined
        /\ prev.call.op = "scrollBack.save" /\ prev.call.key = call.key
        => call.arg = prev.ret)

\* the second save() at a path replaced the offset 0 by 1, the callback
\* then scrolled to 1, and the checkpoint of the other path is still there
C21_Witness ==
  /\ prev.call.op = "scrollBack.save" /\ prev.ret = Num(1)
  /\ call.op = "setTimeout" /\ call.arg = Num(1) /\ call.key = prev.call.key
  /\ saves[call.key.s] = 2
  /\ \E q \in DOMAIN scrollPositions : q # call.key.s /\ scrollPositions[q] = 0

\* C23: the callback of an init() made at any path works on the path
\* current when it runs: it scrolls to the checkpoint of that path, if
\* there is one, and deletes it, and leaves every other entry, the one of
\* the path of init() included, in the registry; without a checkpoint for
\* the current path it changes nothing.
C23_PathAtCallback ==
  /\ [][call'.op = "setTimeout" =>
          /\ call'.key = Str(pathname)
          /\ IF pathname \in DOMAIN scrollPositions
             THEN /\ scrollY' = scrollPositions[pathname]
                  /\ scrollPositions' = removeItem(scrollPositions, pathname)
             ELSE UNCHANGED <<scrollY, scrollPositions>>]_vars
  /\ [](call.op = "setTimeout" /\ call.cur # call.key /\ call.arg # Undefined =>
          /\ call.key = Str(pathname)
          /\ pathname \notin DOMAIN scrollPositions
          /\ scrollY = call.arg.n)

\* init() was called at /p, the location changed to /q, save() at /q stored
\* the offset 1, and then the callback of that init() scrolled to 1 and
\* deleted the entry of /q; the checkpoint of /p is still in the registry
C23_Witness ==
  /\ prev.call.op = "scrollBack.save" /\ prev.call.key = Str(PathQ)
  /\ prev.ret = Num(1)
  /\ call.op = "setTimeout" /\ call.cur = Str(PathP) /\ call.key = Str(PathQ)
  /\ call.arg = Num(1) /\ scrollY = 1
  /\ saves[PathQ] = 1 /\ restores[PathQ] = 1
  /\ PathQ \notin DOMAIN scrollPositions
  /\ PathP \in DOMAIN scrollPositions
  /\ Pending = 0

(***************************************************************************)
(* Properties of audioPlayer                                               *)
(***************************************************************************)
\* C12 as stated: the registry holds exactly one element for each truthy
\* url ever passed, as many elements were created as there are such urls,
\* and a cached element is never replaced or removed.
C12_OnePerUrl ==
  /\ [](DOMAIN urls = passed /\ constructed = Cardinality(passed))
  /\ [][\A u \in DOMAIN urls : u \in DOMAIN urls' /\ urls'[u].id = urls[u].id]_vars

\* C13: the unlock element is played at most once; the play happens in a
\* click step that finds the listener attached and removes it.
C13_UnlockOnce ==
  /\ [](unlockPlays <= 1)
  /\ [][unlockPlays' # unlockPlays => call'.op = "click" /\ listener /\ ~listener']_vars

\* a second click after the one that played the unlock element
C13_Witness ==
  /\ prev.call.op = "click" /\ call.op = "click"
  /\ unlockPlays = 1 /\ ~listener

\* the last step was audioPlayer(url, status) with a truthy url
Played(status) ==
  call.op = "audioPlayer" /\ call.key # Str(<<>>) /\ call.arg = status

\* C14 as stated: audioPlayer(url, 'stop') leaves the element of url paused
\* at position zero; 'pause' leaves it paused at its position; 'load' and a
\* call with a falsy url act on no element.
C14_Transport ==
  /\ [](Played(STOP) =>
          /\ ret # Throw
          /\ call.key.s \in DOMAIN urls
          /\ urls[call.key.s].paused /\ urls[call.key.s].currentTime = 0)
  /\ [][Played(PAUSE)' =>
          /\ ret' # Throw
          /\ call'.key.s \in DOMAIN urls'
          /\ urls'[call'.key.s].paused
          /\ urls'[call'.key.s].currentTime =
               IF call'.key.s \in DOMAIN urls THEN urls[call'.key.s].currentTime ELSE 0]_vars
  /\ [][call'.op = "audioPlayer" /\ (call'.arg = LOAD \/ call'.key = Str(<<>>)) =>
          /\ \A u \in DOMAIN urls : u \in DOMAIN urls' /\ urls'[u] = urls[u]
          /\ \A u \in DOMAIN urls' \ DOMAIN urls : urls'[u].paused]_vars

\* C19 as stated: from module activation to the first click the unlock
\* element exists; after the first click no click listener remains.
C19_EagerUnlock ==
  /\ listener => unlockCreated = 1
  /\ unlockPlays > 0 => ~listener

\* C19 amended: the click listener is attached at module activation and
\* the unlock element is created by the first click: until the first click
\* the listener is attached and no unlock element has been created or
\* played; from the first click on exactly one has been created and
\* played, and no click listener is attached again.
C19_LazyUnlock ==
  /\ [](listener => unlockCreated = 0 /\ unlockPlays = 0)
  /\ [](~listener => unlockCreated = 1 /\ unlockPlays = 1)
  /\ [][~listener => ~listener']_vars
  /\ [][listener /\ ~listener' => call'.op = "click"]_vars

\* the player was used before any click and the first click has just run
C19_Witness ==
  /\ prev.call.op = "audioPlayer" /\ prev.call.arg = PLAY
  /\ call.op = "click"
  /\ ~listener /\ unlockCreated = 1
  /\ urls # NoItems

====
